---- MODULE Spec2Model ----
(***************************************************************************)
(* Model of src/main.cpp: two shared integers guarded by two mutexes, four *)
(* access strategies run by two threads, and the main thread that picks    *)
(* the strategy, spawns the threads, joins them and reports elapsed time.  *)
(*                                                                         *)
(* Every statement of a thread that touches shared state is one step, so   *)
(* that all interleavings of the two threads and main are explored.  An    *)
(* increment `resource += k` is a read step followed by a write step: the  *)
(* compiled code loads, adds and stores, and only the mutex makes the pair *)
(* indivisible.  sleep_for is a step that changes nothing but the program  *)
(* position: it delays the sleeping thread and promises nothing about how  *)
(* far any other thread gets meanwhile.                                    *)
(*                                                                         *)
(* A std::mutex is the set of threads that own it; lock() waits until the  *)
(* set is empty.  std::scoped_lock(mutex_a, mutex_b) is std::lock's        *)
(* algorithm ([thread.lock.algorithm], as libstdc++/libc++ implement it    *)
(* for two mutexes): lock one, try_lock the other, on failure unlock and   *)
(* start again from the one that failed; its destructor unlocks the        *)
(* mutexes in argument order.                                              *)
(***************************************************************************)
EXTENDS Integers, Sequences, FiniteSets, TLC

VARIABLES
    args,              \* main.cpp:137  argv: the program name and what follows --method and --iters
    logged,            \* main.cpp:126  messages parse_args has handed to zen::log
    method,            \* main.cpp:140  selector returned by parse_args
    iters,             \* main.cpp:140  iteration count returned by parse_args
    resource_a,        \* main.cpp:11
    resource_b,        \* main.cpp:12
    mutex_a,           \* main.cpp:15   set of threads owning mutex_a
    mutex_b,           \* main.cpp:16   set of threads owning mutex_b
    pc,                \* position of thread t1 / t2 in its function
    i,                 \* loop counter of each thread
    tmp,               \* value loaded by the read half of `resource += k`
    first,             \* std::lock: the mutex the next round blocks on
    out,               \* lines each thread has written to std::cout
    mainpc,            \* position of main
    main_out,          \* lines main has written to std::cout
    start_taken,       \* main.cpp:142  start timestamp captured
    exit_status        \* value returned by main; -1 while main is running

vars == <<args, logged, method, iters, resource_a, resource_b, mutex_a, mutex_b, pc, i, tmp,
          first, out, mainpc, main_out, start_taken, exit_status>>

shared == <<resource_a, resource_b, mutex_a, mutex_b>>
mainvars == <<args, logged, method, iters, mainpc, main_out, start_taken, exit_status>>

\* Bounds of the model.
MaxIters == 3
MaxMethod == 5

\* Initial values of the two resources.
V0_A == 100
V0_B == 200

Threads == {1, 2}
Methods == -1 .. MaxMethod
Iterations == 0 .. MaxIters

Other(w) == 3 - w

(***************************************************************************)
(* parse_args(argc, argv), main.cpp:120-134                                *)
(***************************************************************************)
\* The initial values of parse_args' locals.
DefaultMethod == 1
DefaultIters == 1000000

\* What the command line holds for one flag: absent; present with no option
\* after it; present with an option std::stoi cannot convert; present with
\* an option that converts to val.
ArgAbsent == [present |-> FALSE, option |-> FALSE, parses |-> FALSE, val |-> 0]
ArgNoOption == [present |-> TRUE, option |-> FALSE, parses |-> FALSE, val |-> 0]
ArgUnparsable == [present |-> TRUE, option |-> TRUE, parses |-> FALSE, val |-> 0]
ArgInt(n) == [present |-> TRUE, option |-> TRUE, parses |-> TRUE, val |-> n]

\* std::stoi(args.get_options(flag)[0]), lines 130 and 131: the integers it
\* can return, and whether it can fail to return.  With no option after the
\* flag, [0] indexes an empty vector: the behaviour is undefined, so the read
\* may end the process, or yield a string that std::stoi rejects, or one
\* that it converts to any integer (S stands for the integers).
stoi_values(f, S) ==
    IF ~f.option THEN S
    ELSE IF f.parses THEN {f.val}
    ELSE {}
stoi_fails(f) == ~f.option \/ ~f.parses

\* The results parse_args can have: the pair it returns, or ok = FALSE when
\* the process ends inside it (std::invalid_argument, which nothing catches,
\* or a fault of the undefined read).
parse_args(a) ==
    IF ~a.method.present \/ ~a.iters.present
    THEN {[ok |-> TRUE, method |-> DefaultMethod, iters |-> DefaultIters]}
    ELSE {[ok |-> TRUE, method |-> m, iters |-> n] :
              m \in stoi_values(a.method, -1 .. MaxMethod),
              n \in stoi_values(a.iters, 0 .. MaxIters)}
         \cup (IF stoi_fails(a.method) \/ stoi_fails(a.iters)
               THEN {[ok |-> FALSE, method |-> DefaultMethod, iters |-> DefaultIters]}
               ELSE {})

(***************************************************************************)
(* print_usage(program_name), main.cpp:107-118: the lines it writes        *)
(***************************************************************************)
print_usage(program_name) ==
    << "Usage: " \o program_name \o "--method [method] --iters [iters]",
       "Methods:",
       "  1 - Single resource access (safe)",
       "  2 - Deadlock demo (simulated)",
       "  3 - Scoped lock method",
       "  4 - Ordered locks method",
       "Default: method=1 iters=1000",
       "Examples:",
       "  " \o program_name \o " 3",
       "  " \o program_name \o " 4 10000" >>

\* argv[0] of the runs.
ProgramNames == {"prog"}

(***************************************************************************)
(* std::mutex                                                              *)
(***************************************************************************)
\* lock() returns only when no thread owns the mutex.
CanLock_NoWait(m) == TRUE
CanLock(m) == m = {}
Locked(m, w) == m \cup {w}
Unlocked(m, w) == m \ {w}

\* lock() / unlock() of the mutex named n ("a": mutex_a, "b": mutex_b).
Acquire(n, w) ==
    IF n = "a"
    THEN CanLock(mutex_a) /\ mutex_a' = Locked(mutex_a, w) /\ UNCHANGED mutex_b
    ELSE CanLock(mutex_b) /\ mutex_b' = Locked(mutex_b, w) /\ UNCHANGED mutex_a
Release(n, w) ==
    IF n = "a"
    THEN mutex_a' = Unlocked(mutex_a, w) /\ UNCHANGED mutex_b
    ELSE mutex_b' = Unlocked(mutex_b, w) /\ UNCHANGED mutex_a
Owner(n) == IF n = "a" THEN mutex_a ELSE mutex_b

\* The line a thread writes, with the value it carries (-1: none).
Line(text, val) == [msg |-> text, val |-> val]
Cout(w, text, val) == out' = [out EXCEPT ![w] = Append(@, Line(text, val))]

Goto(w, l) == pc' = [pc EXCEPT ![w] = l]

\* The program after parse_args has returned the pair (method, iters) read
\* from the command line: main has written the usage text (line 139).
Init ==
    /\ method \in Methods
    /\ iters \in Iterations
    /\ \E p \in ProgramNames :
           /\ args = [program |-> p, method |-> ArgInt(method), iters |-> ArgInt(iters)]
           /\ main_out = print_usage(p)
    /\ logged = <<>>
    /\ resource_a = V0_A
    /\ resource_b = V0_B
    /\ mutex_a = {}
    /\ mutex_b = {}
    /\ pc = [w \in Threads |-> "unspawned"]
    /\ i = [w \in Threads |-> 0]
    /\ tmp = [w \in Threads |-> 0]
    /\ first = [w \in Threads |-> "a"]
    /\ out = [w \in Threads |-> <<>>]
    /\ mainpc = "start"
    /\ start_taken = FALSE
    /\ exit_status = -1

(***************************************************************************)
(* safe_single_access(id, iters), main.cpp:19-31                           *)
(***************************************************************************)
ss_loop(w) ==
    /\ pc[w] = "ss_loop"
    /\ Goto(w, IF i[w] < iters THEN "ss_lock" ELSE "done")
    /\ UNCHANGED <<shared, i, tmp, first, out, mainvars>>

\* A plausible bug: the guard is constructed on the wrong mutex.
ss_lock_WrongMutex(w) ==
    /\ pc[w] = "ss_lock"
    /\ CanLock(mutex_b)
    /\ mutex_b' = Locked(mutex_b, w)
    /\ Goto(w, "ss_print")
    /\ UNCHANGED <<resource_a, resource_b, mutex_a, i, tmp, first, out, mainvars>>

ss_lock_NoWait(w) ==
    /\ pc[w] = "ss_lock"
    /\ mutex_a' = Locked(mutex_a, w)
    /\ Goto(w, "ss_print")
    /\ UNCHANGED <<resource_a, resource_b, mutex_b, i, tmp, first, out, mainvars>>

ss_lock(w) ==
    /\ pc[w] = "ss_lock"
    /\ CanLock(mutex_a)
    /\ mutex_a' = Locked(mutex_a, w)
    /\ Goto(w, "ss_print")
    /\ UNCHANGED <<resource_a, resource_b, mutex_b, i, tmp, first, out, mainvars>>

\* A plausible bug: the `if (i == 0)` around the report is missing.
ss_print_EveryIteration(w) ==
    /\ pc[w] = "ss_print"
    /\ Cout(w, "accessing resource A", resource_a)
    /\ Goto(w, "ss_read")
    /\ UNCHANGED <<shared, i, tmp, first, mainvars>>

ss_print(w) ==
    /\ pc[w] = "ss_print"
    /\ IF i[w] = 0
       THEN Cout(w, "accessing resource A", resource_a)
       ELSE UNCHANGED out
    /\ Goto(w, "ss_read")
    /\ UNCHANGED <<shared, i, tmp, first, mainvars>>

ss_read(w) ==
    /\ pc[w] = "ss_read"
    /\ tmp' = [tmp EXCEPT ![w] = resource_a]
    /\ Goto(w, "ss_write")
    /\ UNCHANGED <<shared, i, first, out, mainvars>>

\* A plausible change: the guarded block ends right after the increment, so
\* the sleep that follows runs without the lock.
ss_write_EndScope(w) ==
    /\ pc[w] = "ss_write"
    /\ resource_a' = tmp[w] + 1
    /\ mutex_a' = Unlocked(mutex_a, w)
    /\ Goto(w, "ss_sleep")
    /\ UNCHANGED <<resource_b, mutex_b, i, tmp, first, out, mainvars>>

ss_write(w) ==
    /\ pc[w] = "ss_write"
    /\ resource_a' = tmp[w] + 1
    /\ Goto(w, "ss_sleep")
    /\ UNCHANGED <<resource_b, mutex_a, mutex_b, i, tmp, first, out, mainvars>>

\* The sleep is inside the loop body, so the lock_guard is still alive.
ss_sleep(w) ==
    /\ pc[w] = "ss_sleep"
    /\ Goto(w, "ss_unlock")
    /\ UNCHANGED <<shared, i, tmp, first, out, mainvars>>

\* A plausible bug: the mutex is still locked when the iteration ends.
ss_unlock_KeepLock(w) ==
    /\ pc[w] = "ss_unlock"
    /\ Goto(w, "ss_inc")
    /\ UNCHANGED <<shared, i, tmp, first, out, mainvars>>

\* End of the loop body: ~lock_guard unlocks mutex_a.
ss_unlock(w) ==
    /\ pc[w] = "ss_unlock"
    /\ mutex_a' = Unlocked(mutex_a, w)
    /\ Goto(w, "ss_inc")
    /\ UNCHANGED <<resource_a, resource_b, mutex_b, i, tmp, first, out, mainvars>>

\* i++ of the for statement, after the guard is gone.
ss_inc(w) ==
    /\ pc[w] = "ss_inc"
    /\ i' = [i EXCEPT ![w] = @ + 1]
    /\ Goto(w, "ss_loop")
    /\ UNCHANGED <<shared, tmp, first, out, mainvars>>

safe_single_access(w) ==
    \/ ss_loop(w) \/ ss_lock(w) \/ ss_print(w) \/ ss_read(w)
    \/ ss_write(w) \/ ss_sleep(w) \/ ss_unlock(w) \/ ss_inc(w)

(***************************************************************************)
(* deadlock_thread1(), main.cpp:34-49: locks A, sleeps, locks B            *)
(***************************************************************************)
d1_begin ==
    /\ pc[1] = "d1_begin"
    /\ Cout(1, "Locking A...", -1)
    /\ Goto(1, "d1_lock_a")
    /\ UNCHANGED <<shared, i, tmp, first, mainvars>>

d1_lock_a ==
    /\ pc[1] = "d1_lock_a"
    /\ CanLock(mutex_a)
    /\ mutex_a' = Locked(mutex_a, 1)
    /\ Goto(1, "d1_got_a")
    /\ UNCHANGED <<resource_a, resource_b, mutex_b, i, tmp, first, out, mainvars>>

d1_got_a ==
    /\ pc[1] = "d1_got_a"
    /\ Cout(1, "Got A, now trying B...", -1)
    /\ Goto(1, "d1_sleep")
    /\ UNCHANGED <<shared, i, tmp, first, mainvars>>

d1_sleep ==
    /\ pc[1] = "d1_sleep"
    /\ Goto(1, "d1_lock_b")
    /\ UNCHANGED <<shared, i, tmp, first, out, mainvars>>

d1_lock_b ==
    /\ pc[1] = "d1_lock_b"
    /\ CanLock(mutex_b)
    /\ mutex_b' = Locked(mutex_b, 1)
    /\ Goto(1, "d1_got_both")
    /\ UNCHANGED <<resource_a, resource_b, mutex_a, i, tmp, first, out, mainvars>>

d1_got_both ==
    /\ pc[1] = "d1_got_both"
    /\ Cout(1, "Got both!", -1)
    /\ Goto(1, "d1_read_a")
    /\ UNCHANGED <<shared, i, tmp, first, mainvars>>

d1_read_a ==
    /\ pc[1] = "d1_read_a"
    /\ tmp' = [tmp EXCEPT ![1] = resource_a]
    /\ Goto(1, "d1_write_a")
    /\ UNCHANGED <<shared, i, first, out, mainvars>>

d1_write_a ==
    /\ pc[1] = "d1_write_a"
    /\ resource_a' = tmp[1] + 10
    /\ Goto(1, "d1_read_b")
    /\ UNCHANGED <<resource_b, mutex_a, mutex_b, i, tmp, first, out, mainvars>>

d1_read_b ==
    /\ pc[1] = "d1_read_b"
    /\ tmp' = [tmp EXCEPT ![1] = resource_b]
    /\ Goto(1, "d1_write_b")
    /\ UNCHANGED <<shared, i, first, out, mainvars>>

d1_write_b ==
    /\ pc[1] = "d1_write_b"
    /\ resource_b' = tmp[1] + 10
    /\ Goto(1, "d1_unlock_b")
    /\ UNCHANGED <<resource_a, mutex_a, mutex_b, i, tmp, first, out, mainvars>>

d1_unlock_b ==
    /\ pc[1] = "d1_unlock_b"
    /\ mutex_b' = Unlocked(mutex_b, 1)
    /\ Goto(1, "d1_unlock_a")
    /\ UNCHANGED <<resource_a, resource_b, mutex_a, i, tmp, first, out, mainvars>>

d1_unlock_a ==
    /\ pc[1] = "d1_unlock_a"
    /\ mutex_a' = Unlocked(mutex_a, 1)
    /\ Goto(1, "done")
    /\ UNCHANGED <<resource_a, resource_b, mutex_b, i, tmp, first, out, mainvars>>

deadlock_thread1 ==
    \/ d1_begin \/ d1_lock_a \/ d1_got_a \/ d1_sleep \/ d1_lock_b
    \/ d1_got_both \/ d1_read_a \/ d1_write_a \/ d1_read_b \/ d1_write_b
    \/ d1_unlock_b \/ d1_unlock_a

(***************************************************************************)
(* deadlock_thread2(), main.cpp:52-67: locks B, sleeps, locks A            *)
(***************************************************************************)
d2_begin ==
    /\ pc[2] = "d2_begin"
    /\ Cout(2, "Locking B...", -1)
    /\ Goto(2, "d2_lock_b")
    /\ UNCHANGED <<shared, i, tmp, first, mainvars>>

d2_lock_b ==
    /\ pc[2] = "d2_lock_b"
    /\ CanLock(mutex_b)
    /\ mutex_b' = Locked(mutex_b, 2)
    /\ Goto(2, "d2_got_b")
    /\ UNCHANGED <<resource_a, resource_b, mutex_a, i, tmp, first, out, mainvars>>

d2_got_b ==
    /\ pc[2] = "d2_got_b"
    /\ Cout(2, "Got B, now trying A...", -1)
    /\ Goto(2, "d2_sleep")
    /\ UNCHANGED <<shared, i, tmp, first, mainvars>>

d2_sleep ==
    /\ pc[2] = "d2_sleep"
    /\ Goto(2, "d2_lock_a")
    /\ UNCHANGED <<shared, i, tmp, first, out, mainvars>>

d2_lock_a ==
    /\ pc[2] = "d2_lock_a"
    /\ CanLock(mutex_a)
    /\ mutex_a' = Locked(mutex_a, 2)
    /\ Goto(2, "d2_got_both")
    /\ UNCHANGED <<resource_a, resource_b, mutex_b, i, tmp, first, out, mainvars>>

d2_got_both ==
    /\ pc[2] = "d2_got_both"
    /\ Cout(2, "Got both!", -1)
    /\ Goto(2, "d2_read_a")
    /\ UNCHANGED <<shared, i, tmp, first, mainvars>>

d2_read_a ==
    /\ pc[2] = "d2_read_a"
    /\ tmp' = [tmp EXCEPT ![2] = resource_a]
    /\ Goto(2, "d2_write_a")
    /\ UNCHANGED <<shared, i, first, out, mainvars>>

d2_write_a ==
    /\ pc[2] = "d2_write_a"
    /\ resource_a' = tmp[2] + 20
    /\ Goto(2, "d2_read_b")
    /\ UNCHANGED <<resource_b, mutex_a, mutex_b, i, tmp, first, out, mainvars>>

d2_read_b ==
    /\ pc[2] = "d2_read_b"
    /\ tmp' = [tmp EXCEPT ![2] = resource_b]
    /\ Goto(2, "d2_write_b")
    /\ UNCHANGED <<shared, i, first, out, mainvars>>

d2_write_b ==
    /\ pc[2] = "d2_write_b"
    /\ resource_b' = tmp[2] + 20
    /\ Goto(2, "d2_unlock_a")
    /\ UNCHANGED <<resource_a, mutex_a, mutex_b, i, tmp, first, out, mainvars>>

d2_unlock_a ==
    /\ pc[2] = "d2_unlock_a"
    /\ mutex_a' = Unlocked(mutex_a, 2)
    /\ Goto(2, "d2_unlock_b")
    /\ UNCHANGED <<resource_a, resource_b, mutex_b, i, tmp, first, out, mainvars>>

\* A plausible bug: the last unlock() is missing.
d2_unlock_b_Missing ==
    /\ pc[2] = "d2_unlock_b"
    /\ Goto(2, "done")
    /\ UNCHANGED <<shared, i, tmp, first, out, mainvars>>

d2_unlock_b ==
    /\ pc[2] = "d2_unlock_b"
    /\ mutex_b' = Unlocked(mutex_b, 2)
    /\ Goto(2, "done")
    /\ UNCHANGED <<resource_a, resource_b, mutex_a, i, tmp, first, out, mainvars>>

deadlock_thread2 ==
    \/ d2_begin \/ d2_lock_b \/ d2_got_b \/ d2_sleep \/ d2_lock_a
    \/ d2_got_both \/ d2_read_a \/ d2_write_a \/ d2_read_b \/ d2_write_b
    \/ d2_unlock_a \/ d2_unlock_b

(***************************************************************************)
(* scoped_lock_access(id, iters), main.cpp:70-85                           *)
(* Line 72 constructs std::scoped_lock(mutex_a, mutex_b): std::lock.       *)
(***************************************************************************)
sl_loop(w) ==
    /\ pc[w] = "sl_loop"
    /\ Goto(w, IF i[w] < iters THEN "sl_lock_first" ELSE "done")
    /\ UNCHANGED <<shared, i, tmp, first, out, mainvars>>

\* std::lock: lock() the mutex this round starts from.
sl_lock_first(w) ==
    /\ pc[w] = "sl_lock_first"
    /\ Acquire(first[w], w)
    /\ Goto(w, "sl_try")
    /\ UNCHANGED <<resource_a, resource_b, i, tmp, first, out, mainvars>>

\* A plausible bug: the result of try_lock() is ignored.
sl_try_IgnoreResult(w) ==
    /\ pc[w] = "sl_try"
    /\ IF first[w] = "a"
       THEN /\ mutex_b' = IF CanLock(mutex_b) THEN Locked(mutex_b, w) ELSE mutex_b
            /\ UNCHANGED mutex_a
       ELSE /\ mutex_a' = IF CanLock(mutex_a) THEN Locked(mutex_a, w) ELSE mutex_a
            /\ UNCHANGED mutex_b
    /\ Goto(w, "sl_print")
    /\ UNCHANGED <<resource_a, resource_b, i, tmp, first, out, mainvars>>

\* std::lock: try_lock() the other mutex; it never waits.
sl_try(w) ==
    /\ pc[w] = "sl_try"
    /\ IF first[w] = "a"
       THEN /\ mutex_b' = IF CanLock(mutex_b) THEN Locked(mutex_b, w) ELSE mutex_b
            /\ Goto(w, IF CanLock(mutex_b) THEN "sl_print" ELSE "sl_backoff")
            /\ UNCHANGED mutex_a
       ELSE /\ mutex_a' = IF CanLock(mutex_a) THEN Locked(mutex_a, w) ELSE mutex_a
            /\ Goto(w, IF CanLock(mutex_a) THEN "sl_print" ELSE "sl_backoff")
            /\ UNCHANGED mutex_b
    /\ UNCHANGED <<resource_a, resource_b, i, tmp, first, out, mainvars>>

\* A plausible bug: the failure path keeps the mutex it holds.
sl_backoff_KeepLock(w) ==
    /\ pc[w] = "sl_backoff"
    /\ first' = [first EXCEPT ![w] = IF @ = "a" THEN "b" ELSE "a"]
    /\ Goto(w, "sl_lock_first")
    /\ UNCHANGED <<shared, i, tmp, out, mainvars>>

\* std::lock: try_lock() failed; unlock the held mutex and start the next
\* round from the one that could not be taken.
sl_backoff(w) ==
    /\ pc[w] = "sl_backoff"
    /\ Release(first[w], w)
    /\ first' = [first EXCEPT ![w] = IF @ = "a" THEN "b" ELSE "a"]
    /\ Goto(w, "sl_lock_first")
    /\ UNCHANGED <<resource_a, resource_b, i, tmp, out, mainvars>>

sl_print(w) ==
    /\ pc[w] = "sl_print"
    /\ IF i[w] = 0
       THEN Cout(w, "safely got both resources", -1)
       ELSE UNCHANGED out
    /\ Goto(w, "sl_read_a")
    /\ UNCHANGED <<shared, i, tmp, first, mainvars>>

sl_read_a(w) ==
    /\ pc[w] = "sl_read_a"
    /\ tmp' = [tmp EXCEPT ![w] = resource_a]
    /\ Goto(w, "sl_write_a")
    /\ UNCHANGED <<shared, i, first, out, mainvars>>

sl_write_a(w) ==
    /\ pc[w] = "sl_write_a"
    /\ resource_a' = tmp[w] + 1
    /\ Goto(w, "sl_read_b")
    /\ UNCHANGED <<resource_b, mutex_a, mutex_b, i, tmp, first, out, mainvars>>

sl_read_b(w) ==
    /\ pc[w] = "sl_read_b"
    /\ tmp' = [tmp EXCEPT ![w] = resource_b]
    /\ Goto(w, "sl_write_b")
    /\ UNCHANGED <<shared, i, first, out, mainvars>>

sl_write_b(w) ==
    /\ pc[w] = "sl_write_b"
    /\ resource_b' = tmp[w] + 1
    /\ Goto(w, "sl_sleep")
    /\ UNCHANGED <<resource_a, mutex_a, mutex_b, i, tmp, first, out, mainvars>>

sl_sleep(w) ==
    /\ pc[w] = "sl_sleep"
    /\ Goto(w, "sl_unlock_a")
    /\ UNCHANGED <<shared, i, tmp, first, out, mainvars>>

\* ~scoped_lock unlocks its mutexes in argument order: mutex_a ...
sl_unlock_a(w) ==
    /\ pc[w] = "sl_unlock_a"
    /\ mutex_a' = Unlocked(mutex_a, w)
    /\ Goto(w, "sl_unlock_b")
    /\ UNCHANGED <<resource_a, resource_b, mutex_b, i, tmp, first, out, mainvars>>

\* ... then mutex_b.  The next std::lock call starts from mutex_a.
sl_unlock_b(w) ==
    /\ pc[w] = "sl_unlock_b"
    /\ mutex_b' = Unlocked(mutex_b, w)
    /\ first' = [first EXCEPT ![w] = "a"]
    /\ Goto(w, "sl_inc")
    /\ UNCHANGED <<resource_a, resource_b, mutex_a, i, tmp, out, mainvars>>

\* i++ of the for statement, after the scoped_lock is gone.
sl_inc(w) ==
    /\ pc[w] = "sl_inc"
    /\ i' = [i EXCEPT ![w] = @ + 1]
    /\ Goto(w, "sl_loop")
    /\ UNCHANGED <<shared, tmp, first, out, mainvars>>

scoped_lock_access(w) ==
    \/ sl_loop(w) \/ sl_lock_first(w) \/ sl_try(w) \/ sl_backoff(w)
    \/ sl_print(w) \/ sl_read_a(w) \/ sl_write_a(w) \/ sl_read_b(w)
    \/ sl_write_b(w) \/ sl_sleep(w) \/ sl_unlock_a(w) \/ sl_unlock_b(w)
    \/ sl_inc(w)

(***************************************************************************)
(* ordered_lock_access(id, iterations), main.cpp:88-104                    *)
(***************************************************************************)
\* A plausible bug: the two threads take the locks in opposite orders.
ol_order_ByThread(w) == IF w = 1 THEN <<"a", "b">> ELSE <<"b", "a">>

\* "Always lock A first, then B": the mutexes of lines 91 and 92.
ol_order(w) == <<"a", "b">>

ol_loop(w) ==
    /\ pc[w] = "ol_loop"
    /\ Goto(w, IF i[w] < iters THEN "ol_lock_a" ELSE "done")
    /\ UNCHANGED <<shared, i, tmp, first, out, mainvars>>

ol_lock_a(w) ==
    /\ pc[w] = "ol_lock_a"
    /\ Acquire(ol_order(w)[1], w)
    /\ Goto(w, "ol_lock_b")
    /\ UNCHANGED <<resource_a, resource_b, i, tmp, first, out, mainvars>>

ol_lock_b(w) ==
    /\ pc[w] = "ol_lock_b"
    /\ Acquire(ol_order(w)[2], w)
    /\ Goto(w, "ol_print")
    /\ UNCHANGED <<resource_a, resource_b, i, tmp, first, out, mainvars>>

ol_print(w) ==
    /\ pc[w] = "ol_print"
    /\ IF i[w] = 0
       THEN Cout(w, "got locks in order", -1)
       ELSE UNCHANGED out
    /\ Goto(w, "ol_read_a")
    /\ UNCHANGED <<shared, i, tmp, first, mainvars>>

ol_read_a(w) ==
    /\ pc[w] = "ol_read_a"
    /\ tmp' = [tmp EXCEPT ![w] = resource_a]
    /\ Goto(w, "ol_write_a")
    /\ UNCHANGED <<shared, i, first, out, mainvars>>

ol_write_a(w) ==
    /\ pc[w] = "ol_write_a"
    /\ resource_a' = tmp[w] + 1
    /\ Goto(w, "ol_read_b")
    /\ UNCHANGED <<resource_b, mutex_a, mutex_b, i, tmp, first, out, mainvars>>

ol_read_b(w) ==
    /\ pc[w] = "ol_read_b"
    /\ tmp' = [tmp EXCEPT ![w] = resource_b]
    /\ Goto(w, "ol_write_b")
    /\ UNCHANGED <<shared, i, first, out, mainvars>>

ol_write_b(w) ==
    /\ pc[w] = "ol_write_b"
    /\ resource_b' = tmp[w] + 1
    /\ Goto(w, "ol_sleep")
    /\ UNCHANGED <<resource_a, mutex_a, mutex_b, i, tmp, first, out, mainvars>>

ol_sleep(w) ==
    /\ pc[w] = "ol_sleep"
    /\ Goto(w, "ol_unlock_b")
    /\ UNCHANGED <<shared, i, tmp, first, out, mainvars>>

\* The guards are destroyed in reverse order of construction: lock_b ...
ol_unlock_b(w) ==
    /\ pc[w] = "ol_unlock_b"
    /\ Release(ol_order(w)[2], w)
    /\ Goto(w, "ol_unlock_a")
    /\ UNCHANGED <<resource_a, resource_b, i, tmp, first, out, mainvars>>

\* ... then lock_a.
ol_unlock_a(w) ==
    /\ pc[w] = "ol_unlock_a"
    /\ Release(ol_order(w)[1], w)
    /\ Goto(w, "ol_inc")
    /\ UNCHANGED <<resource_a, resource_b, i, tmp, first, out, mainvars>>

\* i++ of the for statement, after both guards are gone.
ol_inc(w) ==
    /\ pc[w] = "ol_inc"
    /\ i' = [i EXCEPT ![w] = @ + 1]
    /\ Goto(w, "ol_loop")
    /\ UNCHANGED <<shared, tmp, first, out, mainvars>>

ordered_lock_access(w) ==
    \/ ol_loop(w) \/ ol_lock_a(w) \/ ol_lock_b(w) \/ ol_print(w)
    \/ ol_read_a(w) \/ ol_write_a(w) \/ ol_read_b(w) \/ ol_write_b(w)
    \/ ol_sleep(w) \/ ol_unlock_b(w) \/ ol_unlock_a(w) \/ ol_inc(w)

(***************************************************************************)
(* main, main.cpp:137-176                                                  *)
(***************************************************************************)
ValidMethod(m) == m \in 1 .. 4

\* Where a thread created by `std::thread(f, ...)` starts, per case label.
Entry(m, w) ==
    CASE m = 1 -> "ss_loop"
      [] m = 2 -> IF w = 1 THEN "d1_begin" ELSE "d2_begin"
      [] m = 3 -> "sl_loop"
      [] m = 4 -> "ol_loop"

threadvars == <<i, tmp, first, out>>

m_start ==
    /\ mainpc = "start"
    /\ start_taken' = TRUE
    /\ mainpc' = "switch"
    /\ UNCHANGED <<args, logged, method, iters, main_out, exit_status, shared, pc, threadvars>>

\* t1 = std::thread(...)
m_spawn_t1 ==
    /\ mainpc = "switch"
    /\ ValidMethod(method)
    /\ pc' = [pc EXCEPT ![1] = Entry(method, 1)]
    /\ mainpc' = "spawn_t2"
    /\ UNCHANGED <<args, logged, method, iters, main_out, start_taken, exit_status, shared, threadvars>>

\* t2 = std::thread(...)
m_spawn_t2 ==
    /\ mainpc = "spawn_t2"
    /\ pc' = [pc EXCEPT ![2] = Entry(method, 2)]
    /\ mainpc' = IF method = 2 THEN "announce" ELSE "join_t1"
    /\ UNCHANGED <<args, logged, method, iters, main_out, start_taken, exit_status, shared, threadvars>>

\* case 2 only, main.cpp:152
m_announce ==
    /\ mainpc = "announce"
    /\ main_out' = Append(main_out, "Deadlock occurred, threads did not complete.")
    /\ mainpc' = "join_t1"
    /\ UNCHANGED <<args, logged, method, iters, start_taken, exit_status, shared, pc, threadvars>>

\* A plausible bug: the default case lacks its `return 1`.
m_invalid_FallThrough ==
    /\ mainpc = "switch"
    /\ method \notin 1 .. 4
    /\ main_out' = main_out \o <<"Invalid method: " \o ToString(method),
                                 "Valid methods: 1, 2, 3, 4">>
                             \o print_usage(args.program)
    /\ mainpc' = "join_t1"
    /\ UNCHANGED <<args, logged, method, iters, start_taken, exit_status, shared, pc, threadvars>>

\* default: of the switch: two lines, the usage text, return 1
m_invalid ==
    /\ mainpc = "switch"
    /\ ~ValidMethod(method)
    /\ main_out' = main_out \o <<"Invalid method: " \o ToString(method),
                                 "Valid methods: 1, 2, 3, 4">>
                             \o print_usage(args.program)
    /\ exit_status' = 1
    /\ mainpc' = "exited"
    /\ UNCHANGED <<args, logged, method, iters, start_taken, shared, pc, threadvars>>

m_join_t1 ==
    /\ mainpc = "join_t1"
    /\ pc[1] = "done"
    /\ mainpc' = "join_t2"
    /\ UNCHANGED <<args, logged, method, iters, main_out, start_taken, exit_status, shared, pc, threadvars>>

\* A plausible bug: main does not wait for t2.
m_join_t2_NoWait ==
    /\ mainpc = "join_t2"
    /\ mainpc' = "report"
    /\ UNCHANGED <<args, logged, method, iters, main_out, start_taken, exit_status, shared, pc, threadvars>>

m_join_t2 ==
    /\ mainpc = "join_t2"
    /\ pc[2] = "done"
    /\ mainpc' = "report"
    /\ UNCHANGED <<args, logged, method, iters, main_out, start_taken, exit_status, shared, pc, threadvars>>

m_report ==
    /\ mainpc = "report"
    /\ main_out' = Append(main_out, "Execution time")
    /\ mainpc' = "return"
    /\ UNCHANGED <<args, logged, method, iters, start_taken, exit_status, shared, pc, threadvars>>

m_return ==
    /\ mainpc = "return"
    /\ exit_status' = 0
    /\ mainpc' = "exited"
    /\ UNCHANGED <<args, logged, method, iters, main_out, start_taken, shared, pc, threadvars>>

main ==
    \/ m_start \/ m_spawn_t1 \/ m_spawn_t2 \/ m_announce \/ m_invalid
    \/ m_join_t1 \/ m_join_t2 \/ m_report \/ m_return

\* print_usage(argv[0]), main.cpp:139: the first statement of main
m_usage ==
    /\ mainpc = "usage"
    /\ main_out' = main_out \o print_usage(args.program)
    /\ mainpc' = "parse"
    /\ UNCHANGED <<args, logged, method, iters, start_taken, exit_status, shared, pc, threadvars>>

\* auto [method, iters] = parse_args(argc, argv), main.cpp:140.  When a flag
\* is missing parse_args hands its warning to zen::log (line 126); when the
\* process ends inside parse_args main goes no further.
m_parse ==
    /\ mainpc = "parse"
    /\ \E r \in parse_args(args) :
           IF r.ok
           THEN /\ method' = r.method
                /\ iters' = r.iters
                /\ mainpc' = "start"
           ELSE /\ mainpc' = "aborted"
                /\ UNCHANGED <<method, iters>>
    /\ logged' = IF ~args.method.present \/ ~args.iters.present
                 THEN Append(logged, "No --method or --iters provided. Using default values: ")
                 ELSE logged
    /\ UNCHANGED <<args, main_out, start_taken, exit_status, shared, pc, threadvars>>

(***************************************************************************)
(* The program                                                             *)
(***************************************************************************)
\* The steps of thread w, whichever function it runs.
Thread(w) ==
    \/ safe_single_access(w)
    \/ scoped_lock_access(w)
    \/ ordered_lock_access(w)
    \/ (w = 1 /\ deadlock_thread1)
    \/ (w = 2 /\ deadlock_thread2)

Next == main \/ \E w \in Threads : Thread(w)

Spec == Init /\ [][Next]_vars

\* The operating system runs every thread that can run: main and each
\* worker keep taking steps while they have one to take.  std::mutex gives
\* no fairness between waiters, so nothing stronger is assumed.
Fairness == WF_vars(main) /\ \A w \in Threads : WF_vars(Thread(w))

FairSpec == Spec /\ Fairness

(***************************************************************************)
(* The start of main on its own: every command line of the bounded set,    *)
(* the usage text and the call of parse_args.  The default of 1,000,000    *)
(* iterations is not run here.                                             *)
(***************************************************************************)
ArgValues(S) == {ArgAbsent, ArgNoOption, ArgUnparsable} \cup {ArgInt(n) : n \in S}

ArgsInit ==
    /\ args \in [program : ProgramNames,
                 method : ArgValues(Methods), iters : ArgValues(Iterations)]
    /\ logged = <<>>
    /\ method = DefaultMethod
    /\ iters = DefaultIters
    /\ resource_a = V0_A
    /\ resource_b = V0_B
    /\ mutex_a = {}
    /\ mutex_b = {}
    /\ pc = [w \in Threads |-> "unspawned"]
    /\ i = [w \in Threads |-> 0]
    /\ tmp = [w \in Threads |-> 0]
    /\ first = [w \in Threads |-> "a"]
    /\ out = [w \in Threads |-> <<>>]
    /\ mainpc = "usage"
    /\ main_out = <<>>
    /\ start_taken = FALSE
    /\ exit_status = -1

ArgsNext == m_usage \/ m_parse

ArgsSpec == ArgsInit /\ [][ArgsNext]_vars

(***************************************************************************)
(* Vocabulary of the properties                                            *)
(***************************************************************************)
Holds(w, n) == w \in Owner(n)
Terminated(w) == pc[w] = "done"
Running(w) == pc[w] \notin {"unspawned", "done"}
BothDone == \A w \in Threads : Terminated(w)
Said(w, text) == \E k \in 1 .. Len(out[w]) : out[w][k].msg = text
MainSaid(text) == \E k \in 1 .. Len(main_out) : main_out[k] = text

\* Thread w is at a blocking lock() of the mutex named n.
WaitsFor(w, n) ==
    \/ pc[w] = "ss_lock" /\ n = "a"
    \/ pc[w] = "d1_lock_a" /\ n = "a"
    \/ pc[w] = "d1_lock_b" /\ n = "b"
    \/ pc[w] = "d2_lock_b" /\ n = "b"
    \/ pc[w] = "d2_lock_a" /\ n = "a"
    \/ pc[w] = "sl_lock_first" /\ n = first[w]
    \/ pc[w] = "ol_lock_a" /\ n = ol_order(w)[1]
    \/ pc[w] = "ol_lock_b" /\ n = ol_order(w)[2]

\* Each thread holds one mutex and waits in lock() for the other's.
CircularWait ==
    \E w \in Threads : \E n \in {"a", "b"} :
        LET o == IF n = "a" THEN "b" ELSE "a" IN
        /\ Holds(w, n) /\ WaitsFor(w, o)
        /\ Holds(Other(w), o) /\ WaitsFor(Other(w), n)

\* Some thread has not finished and no thread has a step to take.
Stuck == (\E w \in Threads : Running(w)) /\ ~ENABLED (\E w \in Threads : Thread(w))

(***************************************************************************)
(* C1.  Safe-Single additivity, no lost updates: when both threads running *)
(* safe_single_access with N iterations have terminated, resource_a is     *)
(* V0_A + 2N, whatever the interleaving.                                   *)
(***************************************************************************)
C1_SafeSingleAdditive ==
    (method = 1 /\ BothDone) => resource_a = V0_A + 2 * iters

\* Both finished two iterations each, and thread 2 made its first increment
\* after exactly one increment of thread 1: the iterations interleaved.
C1_Witness ==
    /\ method = 1 /\ BothDone /\ iters = 2
    /\ out[2][1].val = V0_A + 1
    /\ resource_a = V0_A + 4

(***************************************************************************)
(* C2.  Dual-strategy additivity: under Scoped-Dual and Ordered-Dual, when *)
(* both threads have terminated the resources are (V0_A + 2N, V0_B + 2N).  *)
(***************************************************************************)
C2_DualAdditive ==
    (method \in {3, 4} /\ BothDone) =>
        /\ resource_a = V0_A + 2 * iters
        /\ resource_b = V0_B + 2 * iters

\* A Scoped-Dual run of two iterations per thread, finished.
C2_Witness ==
    /\ method = 3 /\ BothDone /\ iters = 2
    /\ resource_a = V0_A + 4 /\ resource_b = V0_B + 4

(***************************************************************************)
(* C3.  Deadlocking never completes: in every execution of method 2 no     *)
(* thread reaches "Got both!", no thread terminates, main's join never     *)
(* returns and the elapsed time is never reported.                         *)
(***************************************************************************)
C3_DeadlockNeverCompletes ==
    method = 2 =>
        /\ \A w \in Threads : ~Terminated(w) /\ ~Said(w, "Got both!")
        /\ mainpc \notin {"join_t2", "report", "return", "exited"}
        /\ ~MainSaid("Execution time")

(***************************************************************************)
(* C4.  Ordered-Dual is deadlock-free: no reachable state of method 4 has  *)
(* an unfinished thread while no thread can take a step, and there is      *)
(* never a circular wait.                                                  *)
(***************************************************************************)
C4_OrderedDeadlockFree == method = 4 => ~Stuck /\ ~CircularWait

\* Contention: thread 1 holds both mutexes while thread 2 waits for mutex_a.
C4_Witness ==
    /\ method = 4
    /\ Holds(1, "a") /\ Holds(1, "b")
    /\ WaitsFor(2, "a") /\ i[2] = 1

(***************************************************************************)
(* C5.  Scoped-Dual is deadlock-free: no reachable state of method 3 has   *)
(* an unfinished thread while no thread can take a step, whichever mutex   *)
(* each thread's round of std::lock starts from.                           *)
(***************************************************************************)
C5_ScopedDeadlockFree == method = 3 => ~Stuck /\ ~CircularWait

\* The two threads hold one mutex each, taken in opposite orders, and each
\* is about to ask for the other's: the shape that deadlocks two lock()s.
C5_Witness ==
    /\ method = 3
    /\ pc[1] = "sl_try" /\ first[1] = "a" /\ Holds(1, "a")
    /\ pc[2] = "sl_try" /\ first[2] = "b" /\ Holds(2, "b")

(***************************************************************************)
(* C6.  Termination of the safe strategies: for selector 1, 3 or 4, under  *)
(* fair scheduling both threads eventually terminate and main's joins      *)
(* return.                                                                 *)
(***************************************************************************)
\* t1.join() and t2.join() have returned; the `return 1` of the default
\* case leaves main without calling them.
Joined == mainpc \in {"report", "return"} \/ (mainpc = "exited" /\ exit_status = 0)

\* The claim as stated.
C6_SafeStrategiesTerminate ==
    method \in {1, 3, 4} => <>(BothDone /\ Joined)

\* As amended: they terminate unless, under selector 3, the two threads keep
\* colliding inside std::lock and back off again and again.
C6_TerminateUnlessBackoffForever ==
    method \in {1, 3, 4} =>
        \/ <>(BothDone /\ Joined)
        \/ []<>(\E w \in Threads : pc[w] = "sl_backoff")

\* A Scoped-Dual run that did terminate, main included.
C6_Witness ==
    /\ method = 3 /\ iters = 2
    /\ BothDone /\ mainpc = "exited" /\ exit_status = 0

(***************************************************************************)
(* C7.  Lock mutual exclusion: in every reachable state of every strategy  *)
(* mutex_a is owned by at most one thread, and so is mutex_b.              *)
(***************************************************************************)
C7_MutualExclusion == Cardinality(mutex_a) <= 1 /\ Cardinality(mutex_b) <= 1

\* A contended lock: thread 2 owns mutex_a while thread 1 waits in lock().
C7_Witness ==
    /\ method = 1
    /\ mutex_a = {2}
    /\ WaitsFor(1, "a")

(***************************************************************************)
(* C8.  Resources are accessed only under their lock: every step of a      *)
(* thread that reads resource_a for an update, or writes it, is taken      *)
(* while that thread owns mutex_a (resource_b: mutex_b), and the value the *)
(* write increments is still the value of the resource: the read and the   *)
(* write lie in one uninterrupted hold of the lock.                        *)
(***************************************************************************)
ReadsA == {"ss_read", "d1_read_a", "d2_read_a", "sl_read_a", "ol_read_a"}
WritesA == {"ss_write", "d1_write_a", "d2_write_a", "sl_write_a", "ol_write_a"}
ReadsB == {"d1_read_b", "d2_read_b", "sl_read_b", "ol_read_b"}
WritesB == {"d1_write_b", "d2_write_b", "sl_write_b", "ol_write_b"}

C8_AccessUnderLock ==
    [][\A w \in Threads : pc'[w] # pc[w] =>
        /\ (resource_a' # resource_a \/ pc[w] \in ReadsA \cup WritesA) =>
               /\ mutex_a = {w} /\ mutex_a' = {w}
               /\ pc[w] \in ReadsA \cup WritesA
        /\ pc[w] \in WritesA => tmp[w] = resource_a
        /\ (resource_b' # resource_b \/ pc[w] \in ReadsB \cup WritesB) =>
               /\ mutex_b = {w} /\ mutex_b' = {w}
               /\ pc[w] \in ReadsB \cup WritesB
        /\ pc[w] \in WritesB => tmp[w] = resource_b
      ]_vars

\* Thread 1 is about to store its second increment of resource_b, holding
\* both mutexes, while thread 2 waits for mutex_a.
C8_Witness ==
    /\ method = 4
    /\ pc[1] = "ol_write_b" /\ i[1] = 1
    /\ Holds(1, "a") /\ Holds(1, "b")
    /\ WaitsFor(2, "a")

(***************************************************************************)
(* C9.  Scoped-Dual acquisition is all-or-nothing: under method 3 no       *)
(* reachable state has a thread owning exactly one of mutex_a and mutex_b. *)
(***************************************************************************)
\* The claim as stated.
C9_AllOrNothing ==
    method = 3 => \A w \in Threads : Holds(w, "a") <=> Holds(w, "b")

\* As amended: a thread executing its own statements (loop test, report,
\* increments, sleep, i++) owns both mutexes or neither; it owns exactly one
\* only inside std::lock (after lock(), around try_lock()) or inside
\* ~scoped_lock (between the two unlock()s), where it never waits.
InCriticalSection(w) ==
    pc[w] \in {"sl_print", "sl_read_a", "sl_write_a", "sl_read_b", "sl_write_b", "sl_sleep"}
\* Thread w is inside the constructor or the destructor of the scoped_lock.
InsidePrimitive(w) ==
    pc[w] \in {"sl_lock_first", "sl_try", "sl_backoff", "sl_unlock_a", "sl_unlock_b"}

C9_AllOrNothingOutsidePrimitive ==
    method = 3 => \A w \in Threads :
        /\ InCriticalSection(w) => Holds(w, "a") /\ Holds(w, "b")
        /\ ~InsidePrimitive(w) /\ ~InCriticalSection(w) =>
               ~Holds(w, "a") /\ ~Holds(w, "b")
        /\ pc[w] = "sl_lock_first" => ~Holds(w, "a") /\ ~Holds(w, "b")
        /\ pc[w] = "sl_unlock_a" => Holds(w, "a") /\ Holds(w, "b")
        /\ (Holds(w, "a") # Holds(w, "b")) =>
               /\ pc[w] \in {"sl_try", "sl_backoff", "sl_unlock_b"}
               /\ \A n \in {"a", "b"} : ~WaitsFor(w, n)

\* Thread 1 is between the two unlock()s of ~scoped_lock and still owns
\* mutex_b; thread 2 took mutex_a and its try_lock() of mutex_b failed.
C9_Witness ==
    /\ method = 3
    /\ pc[1] = "sl_unlock_b" /\ Holds(1, "b") /\ ~Holds(1, "a")
    /\ pc[2] = "sl_backoff" /\ Holds(2, "a") /\ ~Holds(2, "b")

(***************************************************************************)
(* C10.  Selector validation: threads are spawned only for a selector in   *)
(* 1..4, and then both are; for any other selector main reports the        *)
(* invalid input (the selector, the valid ones, the usage text) and        *)
(* returns 1, no thread is spawned, no mutex is locked and both resources  *)
(* keep their initial values.                                              *)
(***************************************************************************)
C10_SelectorValidation ==
    /\ (\E w \in Threads : pc[w] # "unspawned") => method \in {1, 2, 3, 4}
    /\ (method \in {1, 2, 3, 4} /\ mainpc \notin {"start", "switch", "spawn_t2"}) =>
           \A w \in Threads : pc[w] # "unspawned"
    /\ method \notin {1, 2, 3, 4} =>
           /\ \A w \in Threads : pc[w] = "unspawned"
           /\ mutex_a = {} /\ mutex_b = {}
           /\ resource_a = V0_A /\ resource_b = V0_B
           /\ \/ mainpc \in {"start", "switch"} /\ exit_status = -1
              \/ /\ mainpc = "exited" /\ exit_status = 1
                 /\ ~Joined
                 /\ main_out = print_usage(args.program)
                                 \o <<"Invalid method: " \o ToString(method),
                                      "Valid methods: 1, 2, 3, 4">>
                                 \o print_usage(args.program)

\* Selector 5: main has reported the invalid method and returned 1.
C10_Witness ==
    /\ method = 5
    /\ mainpc = "exited" /\ exit_status = 1
    /\ MainSaid("Invalid method: 5")
    /\ Len(main_out) = 22

(***************************************************************************)
(* C11.  Timing harness ordering: the start timestamp is taken before      *)
(* either thread is spawned, and the elapsed time is reported, and main    *)
(* returns 0, only after both threads have terminated.                     *)
(***************************************************************************)
C11_TimingOrder ==
    /\ (\E w \in Threads : pc[w] # "unspawned") => start_taken
    /\ MainSaid("Execution time") => BothDone
    /\ exit_status = 0 => BothDone /\ MainSaid("Execution time")

\* The elapsed time has been reported after a contended Ordered-Dual run.
C11_Witness ==
    /\ method = 4 /\ iters = 2
    /\ mainpc = "return" /\ MainSaid("Execution time")
    /\ start_taken /\ BothDone

(***************************************************************************)
(* C13.  Circular wait is reachable and permanent: under method 2, from a  *)
(* state where thread 1 owns mutex_a and thread 2 owns mutex_b, no step    *)
(* ever gives a thread its second mutex or releases one, and both          *)
(* resources keep their initial values.                                    *)
(***************************************************************************)
CrossHeld == method = 2 /\ 1 \in mutex_a /\ 2 \in mutex_b

C13_CircularWaitPermanent ==
    /\ [](CrossHeld =>
            /\ mutex_a = {1} /\ mutex_b = {2}
            /\ resource_a = V0_A /\ resource_b = V0_B
            /\ \A w \in Threads : ~Terminated(w) /\ ~Said(w, "Got both!"))
    /\ [][CrossHeld => CrossHeld']_vars

\* Both threads are past their sleep, each in lock() on the other's mutex,
\* and nothing can move but main, which waits in join.
C13_Witness ==
    /\ CrossHeld /\ CircularWait /\ Stuck
    /\ pc[1] = "d1_lock_b" /\ pc[2] = "d2_lock_a"
    /\ mainpc = "join_t1"

(***************************************************************************)
(* C14.  Ordered-Dual lock order: in every iteration mutex_a is locked     *)
(* before mutex_b and mutex_b is unlocked before mutex_a, so the thread    *)
(* that owns mutex_b also owns mutex_a, and no thread waits for mutex_a    *)
(* while owning mutex_b.                                                   *)
(***************************************************************************)
C14_OrderedLockOrder ==
    method = 4 => \A w \in Threads :
        /\ Holds(w, "b") => Holds(w, "a")
        /\ ~(Holds(w, "b") /\ WaitsFor(w, "a"))
        /\ pc[w] = "ol_lock_b" => Holds(w, "a") /\ ~Holds(w, "b")
        /\ pc[w] = "ol_unlock_a" => Holds(w, "a") /\ ~Holds(w, "b")

\* Thread 1 has unlocked mutex_b and still owns mutex_a, which thread 2
\* waits for.
C14_Witness ==
    /\ method = 4
    /\ pc[1] = "ol_unlock_a" /\ Holds(1, "a") /\ mutex_b = {}
    /\ WaitsFor(2, "a")

(***************************************************************************)
(* C15.  Paired updates are never seen half-done: under methods 2, 3 and   *)
(* 4, whenever neither mutex is owned the two resources have grown by the  *)
(* same amount, and every step that changes a resource is taken by a       *)
(* thread that owns both mutexes.                                          *)
(***************************************************************************)
C15_PairedUpdates ==
    /\ [](method \in {2, 3, 4} /\ mutex_a = {} /\ mutex_b = {} =>
            resource_a - V0_A = resource_b - V0_B)
    /\ [][(method \in {2, 3, 4}) /\ (resource_a' # resource_a \/ resource_b' # resource_b) =>
            (\E w \in Threads :
                /\ pc'[w] # pc[w]
                /\ mutex_a = {w} /\ mutex_b = {w}
                /\ mutex_a' = {w} /\ mutex_b' = {w})
         ]_vars

\* Between iterations of a Scoped-Dual run: three paired increments are
\* done, both mutexes are free and both threads are still running.
C15_Witness ==
    /\ method = 3
    /\ mutex_a = {} /\ mutex_b = {}
    /\ resource_a = V0_A + 3 /\ resource_b = V0_B + 3
    /\ \A w \in Threads : Running(w)

(***************************************************************************)
(* C16.  No lock is held while sleeping: in methods 1, 3 and 4 a sleeping  *)
(* thread owns neither mutex_a nor mutex_b.                                *)
(***************************************************************************)
Sleeping(w) == pc[w] \in {"ss_sleep", "sl_sleep", "ol_sleep"}

\* The claim as stated.
C16_NoLockWhileSleeping ==
    method \in {1, 3, 4} => \A w \in Threads :
        Sleeping(w) => ~Holds(w, "a") /\ ~Holds(w, "b")

\* As amended: the sleep is the last statement of the guarded loop body.  A
\* sleeping thread is the only owner of mutex_a (and of mutex_b under
\* methods 3 and 4), it has stored its increment, and the other thread is
\* not inside its own critical section.
C16_SleepInsideCriticalSection ==
    method \in {1, 3, 4} => \A w \in Threads :
        Sleeping(w) =>
            /\ mutex_a = {w}
            /\ method \in {3, 4} => mutex_b = {w}
            /\ method = 1 => resource_a = tmp[w] + 1
            /\ method \in {3, 4} => resource_b = tmp[w] + 1
            /\ ~Sleeping(Other(w))

\* Thread 1 sleeps owning mutex_a while thread 2 waits for it.
C16_Witness ==
    /\ method = 1
    /\ pc[1] = "ss_sleep" /\ mutex_a = {1}
    /\ WaitsFor(2, "a")

(***************************************************************************)
(* C17.  First-iteration reporting: in methods 1, 3 and 4 with N >= 1 each *)
(* thread writes exactly one report, in its first iteration while it owns  *)
(* its mutex(es), carrying the value resource_a has before the thread's    *)
(* own first increment; with N = 0 it writes none.                         *)
(***************************************************************************)
\* The stores of `resource_a += 1` thread w has done: one per finished
\* iteration, and the one of the current iteration from the store on (under
\* methods 3 and 4 the update of resource_b follows it; i++ comes last).
Completed(w) ==
    i[w] + (IF pc[w] \in {"ss_sleep", "ss_unlock", "ss_inc",
                          "sl_read_b", "sl_write_b",
                          "sl_sleep", "sl_unlock_a", "sl_unlock_b", "sl_inc",
                          "ol_read_b", "ol_write_b",
                          "ol_sleep", "ol_unlock_b", "ol_unlock_a", "ol_inc"}
            THEN 1 ELSE 0)

\* The claim as stated, for the value: every report carries resource_a,
\* which is V0_A plus the increments the other thread has completed.
C17_ReportCarriesResourceA ==
    [][\A w \in Threads :
          (method \in {1, 3, 4}) /\ out'[w] # out[w] =>
              out'[w][Len(out'[w])].val = V0_A + Completed(Other(w))
      ]_vars

\* As amended: only the Safe-Single report carries the value of
\* resource_a; the Scoped-Dual and Ordered-Dual reports carry no value.
C17_FirstIterationReport ==
    /\ [](method \in {1, 3, 4} => \A w \in Threads :
            /\ Len(out[w]) <= 1
            /\ iters = 0 => out[w] = <<>>
            /\ (i[w] >= 1 \/ (Terminated(w) /\ iters >= 1)) => Len(out[w]) = 1
            /\ (method = 1 /\ out[w] # <<>>) =>
                   /\ out[w][1].msg = "accessing resource A"
                   /\ out[w][1].val \in V0_A .. V0_A + iters
            /\ (method = 3 /\ out[w] # <<>>) =>
                   out[w][1] = Line("safely got both resources", -1)
            /\ (method = 4 /\ out[w] # <<>>) =>
                   out[w][1] = Line("got locks in order", -1))
    /\ [][\A w \in Threads :
            (method \in {1, 3, 4}) /\ out'[w] # out[w] =>
                /\ i[w] = 0
                /\ mutex_a = {w}
                /\ method \in {3, 4} => mutex_b = {w}
                /\ method = 1 =>
                       /\ out'[w][1].val = resource_a
                       /\ resource_a = V0_A + Completed(Other(w))
       ]_vars

\* Thread 2 has just made its report, V0_A + 1, owning mutex_a: thread 1
\* has stored one increment and unlocked, and has not yet executed its i++.
C17_Witness ==
    /\ method = 1
    /\ pc[1] = "ss_inc" /\ i[1] = 0
    /\ pc[2] = "ss_read" /\ mutex_a = {2}
    /\ out[2] = <<Line("accessing resource A", V0_A + 1)>>

(***************************************************************************)
(* C18.  The deadlock announcement is truthful: under method 2, when main  *)
(* prints "Deadlock occurred, threads did not complete." both threads are  *)
(* in the circular wait and neither has completed.                         *)
(***************************************************************************)
C18_AnnouncementTruthful ==
    [][(mainpc = "announce" /\ mainpc' # mainpc) =>
          /\ CircularWait
          /\ \A w \in Threads : ~Terminated(w)
      ]_vars

(***************************************************************************)
(* C19.  Safe-Single leaves resource_b and mutex_b untouched: in every     *)
(* reachable state of method 1 resource_b has its initial value and no     *)
(* thread owns mutex_b.                                                    *)
(***************************************************************************)
C19_SafeSingleFrame == method = 1 => resource_b = V0_B /\ mutex_b = {}

\* Mid-run: three increments of resource_a are stored and thread 1 owns
\* mutex_a.
C19_Witness ==
    /\ method = 1
    /\ resource_a = V0_A + 3 /\ mutex_a = {1}
    /\ resource_b = V0_B /\ mutex_b = {}

(***************************************************************************)
(* C20.  Locks are released on termination: a terminated thread owns no    *)
(* mutex under any method, so once main's joins have returned both mutexes *)
(* are free.                                                               *)
(***************************************************************************)
C20_ReleasedOnTermination ==
    /\ \A w \in Threads : Terminated(w) => ~Holds(w, "a") /\ ~Holds(w, "b")
    /\ Joined => mutex_a = {} /\ mutex_b = {}

\* A method 2 run in which both roles reached their end: both mutexes are
\* free after the joins.
C20_Witness ==
    /\ method = 2 /\ BothDone /\ Joined
    /\ resource_a = V0_A + 30 /\ resource_b = V0_B + 30
    /\ mutex_a = {} /\ mutex_b = {}

(***************************************************************************)
(* C12.  Argument defaults: the selector is the --method argument whenever *)
(* that is present and converts to 1..4, and is 1 only by default when it  *)
(* is absent or does not convert; the iteration count is the --iters       *)
(* argument when present and 1,000,000 only when it is absent; a parsing   *)
(* failure never aborts the run.                                           *)
(***************************************************************************)
C12_ArgumentDefaults ==
    mainpc \notin {"usage", "parse"} =>
        /\ mainpc # "aborted"
        /\ (args.method.parses /\ args.method.val \in 1 .. 4) =>
               method = args.method.val
        /\ ~args.method.parses => method = DefaultMethod
        /\ args.iters.parses => iters = args.iters.val
        /\ ~args.iters.present => iters = DefaultIters

====
